---- MODULE Spec2Model ----
(***************************************************************************)
(* Model of src/app.py: a Streamlit chat front end over a LangChain SQL    *)
(* agent.  The script is re-run once per interaction of a session; the     *)
(* per-session state is st.session_state["messages"]; the database handle  *)
(* returned by configure_db is shared by all sessions.                     *)
(***************************************************************************)
EXTENDS Integers, Sequences, FiniteSets

VARIABLES
    apiKeySet,    \* os.getenv("GROQ_API_KEY") is a non-empty string (line 20)
    llmRejects,   \* ChatGroq(groq_api_key=<missing>) raises here (line 134)
    dbContents,   \* rows stored in the analytics_db file (line 139)
    pc,           \* per session: position of its script (lines 129-200)
    messages,     \* per session: st.session_state["messages"] (line 159)
    response,     \* per session: the local `response` of the run (line 179)
    view,         \* per session: what the assistant container shows (line 176)
    notices,      \* per session: every st.error call so far (lines 131, 200)
    agentCalls,   \* per session: number of agent.run invocations (line 179)
    sqlResult,    \* per session: outcome of the agent's last statement
    base,         \* per session: messages as they were when the query arrived
    outcomes      \* per session: how the try block ended, one entry per query

vars == <<apiKeySet, llmRejects, dbContents, pc, messages, response, view,
          notices, agentCalls, sqlResult, base, outcomes>>

-----------------------------------------------------------------------------
(* Bounds *)

\* Total number of submissions (over all sessions) in one behaviour.
MaxSubmissions == 3
\* Largest list an agent response holds, and largest tuple in such a list.
MaxRows == 2
MaxArity == 2

Sessions == {"s1", "s2"}
Queries == {"How many rows in table orders?"}
AgentErrors == {"backend timeout", "no such table: orders"}

-----------------------------------------------------------------------------
(* Python values, tagged with their type *)

PyStr(s) == [tag |-> "str", v |-> s]
PyInt(n) == [tag |-> "int", v |-> n]
PyTuple(items) == [tag |-> "tuple", v |-> items]
PyList(items) == [tag |-> "list", v |-> items]
PyNone == [tag |-> "NoneType", v |-> <<>>]

Digit == <<"0", "1", "2", "3", "4", "5", "6", "7", "8", "9">>

RECURSIVE IntToStr(_)
\* str(n) of a natural number, as the f-string of line 190 formats it
IntToStr(n) ==
    IF n < 10 THEN Digit[n + 1] ELSE IntToStr(n \div 10) \o Digit[(n % 10) + 1]

-----------------------------------------------------------------------------
(* What the page shows *)

NoView == [widget |-> "none", body |-> PyNone, headers |-> <<>>, rows |-> <<>>]
\* st.write(x)
Write(x) == [widget |-> "write", body |-> x, headers |-> <<>>, rows |-> <<>>]
\* st.dataframe(df...) of a frame with these column labels and rows
Grid(h, r) == [widget |-> "dataframe", body |-> PyNone, headers |-> h, rows |-> r]

NotTabular == "The response is not in tabular format."
UnexpectedFormat == "Unexpected response format."
KeyMissing == "GROQ_API_KEY not found in .env file"
Greeting == [role |-> "assistant", content |-> PyStr("How can I help you?")]

\* st.error(f"An error occurred: {str(e)}")
ErrorText(m) == "An error occurred: " \o m

-----------------------------------------------------------------------------
(* ResponseRenderer: lines 183-197 *)

MaxOf(S) == IF S = {} THEN 0 ELSE CHOOSE m \in S : \A k \in S : k <= m

\* pd.DataFrame(rows, columns=headers) for a non-empty list of tuples: the
\* frame is as wide as the longest tuple, shorter tuples are padded with
\* missing values, and a column-label list of another length is rejected.
DataFrame(rows, headers) ==
    LET width == MaxOf({Len(rows[i].v) : i \in 1..Len(rows)})
        pad(t) == [j \in 1..width |-> IF j <= Len(t) THEN t[j] ELSE PyNone]
    IN  IF Len(headers) # width
        THEN [raised |-> TRUE,
              error |-> IntToStr(Len(headers)) \o " columns passed, passed data had "
                        \o IntToStr(width) \o " columns",
              columns |-> <<>>, data |-> <<>>]
        ELSE [raised |-> FALSE, error |-> "",
              columns |-> headers,
              data |-> [i \in 1..Len(rows) |-> pad(rows[i].v)]]

\* Variant: the labels count from 0 (f"Column {i}").
HeadersZeroBased(first) == [j \in 1..Len(first.v) |-> "Column " \o IntToStr(j - 1)]

\* headers = [f"Column {i+1}" for i in range(len(response[0]))]
\* (position j of the sequence is Python's i = j - 1)
Headers(first) == [j \in 1..Len(first.v) |-> "Column " \o IntToStr((j - 1) + 1)]

\* all(isinstance(i, tuple) for i in response) and len(response) > 0
IsTupleList(r) == (\A i \in 1..Len(r.v) : r.v[i].tag = "tuple") /\ Len(r.v) > 0

\* The shape dispatch.  raised = TRUE: an exception leaves the try block.
RenderResponse(r) ==
    IF r.tag = "str"
    THEN [raised |-> FALSE, error |-> "", view |-> Write(r)]
    ELSE IF r.tag = "list"
    THEN IF IsTupleList(r)
         THEN LET df == DataFrame(r.v, Headers(r.v[1]))
              IN  IF df.raised
                  THEN [raised |-> TRUE, error |-> df.error, view |-> NoView]
                  ELSE [raised |-> FALSE, error |-> "",
                        view |-> Grid(df.columns, df.data)]
         ELSE [raised |-> FALSE, error |-> "", view |-> Write(PyStr(NotTabular))]
    ELSE [raised |-> FALSE, error |-> "", view |-> Write(PyStr(UnexpectedFormat))]

-----------------------------------------------------------------------------
(* ReadOnlyDatabaseHandle: configure_db, lines 137-144 *)

InitialDb == {"r1"}
Statements == {[kind |-> "SELECT", row |-> "r1"],
               [kind |-> "INSERT", row |-> "r2"],
               [kind |-> "DROP", row |-> "r1"]}

\* Variant: the connection string lacks mode=ro.
configure_db_rw == [mode |-> "rwc"]

\* sqlite3.connect(f"file:{dbfilepath}?mode=ro", uri=True): the handle every
\* session gets from the cached configure_db()
configure_db == [mode |-> "ro"]

db == configure_db

\* One statement run on a connection of the handle.  SQLite refuses every
\* write on a mode=ro connection; other modes apply it.
Execute(handle, stmt, contents) ==
    IF stmt.kind = "SELECT"
    THEN [outcome |-> "rows", stmt |-> stmt.kind, contents |-> contents]
    ELSE IF handle.mode = "ro"
    THEN [outcome |-> "rejected", stmt |-> stmt.kind, contents |-> contents]
    ELSE [outcome |-> "done", stmt |-> stmt.kind,
          contents |-> IF stmt.kind = "INSERT" THEN contents \cup {stmt.row}
                       ELSE {}]

NoResult == [outcome |-> "none", stmt |-> "", contents |-> {}]

-----------------------------------------------------------------------------
(* Values agent.run may return *)

Cells == {PyInt(1), PyStr("a")}
TuplesOf(k) == {PyTuple(t) : t \in [1..k -> Cells]}
Tuples == UNION {TuplesOf(k) : k \in 0..MaxArity}
Elements == Tuples \cup {PyInt(7)}
ListsOf(n) == {PyList(l) : l \in [1..n -> Elements]}
Lists == UNION {ListsOf(n) : n \in 0..MaxRows}

\* Every shape: text, lists of up to MaxRows elements, and other objects.
AllResponses ==
    {PyStr("42")} \cup Lists \cup {PyInt(42), PyNone, PyTuple(<<PyInt(1)>>)}

\* The shapes the sessions are run with: one of each branch of the dispatch.
SessionResponses ==
    { PyStr("42"),
      PyList(<<>>),
      PyList(<<PyTuple(<<PyInt(1), PyStr("a")>>), PyTuple(<<PyInt(2), PyStr("b")>>)>>),
      PyList(<<PyTuple(<<PyInt(1)>>), PyTuple(<<PyInt(2), PyStr("b")>>)>>),
      PyList(<<PyInt(7)>>),
      PyInt(42) }

-----------------------------------------------------------------------------
(* The script, one run per interaction *)

Turn(role, content) == [role |-> role, content |-> content]
\* kind "startup": the st.error of line 131; kind "error": that of line 200.
\* sub is the number of the query the run was started with (0: none).
Notice(kind, n, text) == [kind |-> kind, sub |-> n, text |-> text]
Outcome(result, detail) == [result |-> result, detail |-> detail]

UserTurns(s) == {i \in 1..Len(messages[s]) : messages[s][i].role = "user"}

RECURSIVE SumCalls(_)
SumCalls(S) ==
    IF S = {} THEN 0
    ELSE LET s == CHOOSE x \in S : TRUE IN agentCalls[s] + SumCalls(S \ {s})

\* Lines 129-131: the credential check every run starts with.
StartupNotices(s, n) ==
    IF ~apiKeySet THEN Append(notices[s], Notice("startup", n, KeyMissing))
    ELSE notices[s]

\* Line 134: ChatGroq(groq_api_key=api_key, ...) raises; nothing catches it.
LlmConstructionFails == ~apiKeySet /\ llmRejects

Init ==
    /\ apiKeySet \in BOOLEAN
    /\ llmRejects \in BOOLEAN
    /\ (apiKeySet => ~llmRejects)
    /\ dbContents = InitialDb
    /\ pc = [s \in Sessions |-> "new"]
    /\ messages = [s \in Sessions |-> <<>>]
    /\ response = [s \in Sessions |-> PyNone]
    /\ view = [s \in Sessions |-> NoView]
    /\ notices = [s \in Sessions |-> <<>>]
    /\ agentCalls = [s \in Sessions |-> 0]
    /\ sqlResult = [s \in Sessions |-> NoResult]
    /\ base = [s \in Sessions |-> <<>>]
    /\ outcomes = [s \in Sessions |-> <<>>]

\* First run of a session (no query): lines 129-166.
Load(s) ==
    /\ pc[s] = "new"
    /\ notices' = [notices EXCEPT ![s] = StartupNotices(s, 0)]
    /\ IF LlmConstructionFails
       THEN /\ pc' = [pc EXCEPT ![s] = "crashed"]
            /\ UNCHANGED messages
       ELSE /\ pc' = [pc EXCEPT ![s] = "idle"]
            /\ messages' = [messages EXCEPT ![s] = <<Greeting>>]
    /\ UNCHANGED <<apiKeySet, llmRejects, dbContents, response, view,
                   agentCalls, sqlResult, base, outcomes>>

\* Variant: the run starts the history afresh before it appends the query.
SubmitResetsHistory(s, q) ==
    /\ pc[s] = "idle"
    /\ SumCalls(Sessions) < MaxSubmissions
    /\ notices' = [notices EXCEPT ![s] = StartupNotices(s, agentCalls[s] + 1)]
    /\ base' = [base EXCEPT ![s] = messages[s]]
    /\ messages' = [messages EXCEPT ![s] = <<Greeting, Turn("user", PyStr(q))>>]
    /\ view' = [view EXCEPT ![s] = NoView]
    /\ sqlResult' = [sqlResult EXCEPT ![s] = NoResult]
    /\ agentCalls' = [agentCalls EXCEPT ![s] = @ + 1]
    /\ pc' = [pc EXCEPT ![s] = "awaiting"]
    /\ UNCHANGED <<apiKeySet, llmRejects, dbContents, response, outcomes>>

\* A run with a query, up to the call of agent.run: lines 129-179.
Submit(s, q) ==
    /\ pc[s] = "idle"
    /\ SumCalls(Sessions) < MaxSubmissions
    /\ notices' = [notices EXCEPT ![s] = StartupNotices(s, agentCalls[s] + 1)]
    /\ base' = [base EXCEPT ![s] = messages[s]]
    /\ messages' = [messages EXCEPT ![s] = Append(@, Turn("user", PyStr(q)))]
    /\ view' = [view EXCEPT ![s] = NoView]
    /\ sqlResult' = [sqlResult EXCEPT ![s] = NoResult]
    /\ agentCalls' = [agentCalls EXCEPT ![s] = @ + 1]
    /\ pc' = [pc EXCEPT ![s] = "awaiting"]
    /\ UNCHANGED <<apiKeySet, llmRejects, dbContents, response, outcomes>>

\* The running agent executes a statement through the shared handle.
AgentQuery(s, stmt) ==
    /\ pc[s] = "awaiting"
    /\ LET res == Execute(db, stmt, dbContents)
       IN  /\ dbContents' = res.contents
           /\ sqlResult' = [sqlResult EXCEPT ![s] = [res EXCEPT !.contents = {}]]
    /\ UNCHANGED <<apiKeySet, llmRejects, pc, messages, response, view,
                   notices, agentCalls, base, outcomes>>

\* agent.run returns r: lines 179-180.  (Without the credential the model
\* backend answers no request, so the agent can only fail.)
AgentReturn(s, r) ==
    /\ pc[s] = "awaiting"
    /\ apiKeySet
    /\ response' = [response EXCEPT ![s] = r]
    /\ messages' = [messages EXCEPT ![s] = Append(@, Turn("assistant", r))]
    /\ pc' = [pc EXCEPT ![s] = "rendering"]
    /\ UNCHANGED <<apiKeySet, llmRejects, dbContents, view, notices,
                   agentCalls, sqlResult, base, outcomes>>

\* Lines 183-200: the dispatch on the response, inside the try block.
Render(s) ==
    /\ pc[s] = "rendering"
    /\ LET out == RenderResponse(response[s])
       IN  IF out.raised
           THEN /\ notices' = [notices EXCEPT ![s] =
                      Append(@, Notice("error", agentCalls[s], ErrorText(out.error)))]
                /\ outcomes' = [outcomes EXCEPT ![s] =
                      Append(@, Outcome("render_error", out.error))]
                /\ UNCHANGED view
           ELSE /\ view' = [view EXCEPT ![s] = out.view]
                /\ outcomes' = [outcomes EXCEPT ![s] = Append(@, Outcome("ok", ""))]
                /\ UNCHANGED notices
    /\ response' = [response EXCEPT ![s] = PyNone]
    /\ pc' = [pc EXCEPT ![s] = "idle"]
    /\ UNCHANGED <<apiKeySet, llmRejects, dbContents, messages, agentCalls,
                   sqlResult, base>>

\* Variant: the except clause also records the error as an assistant turn.
AgentRaiseAppendsTurn(s, m) ==
    /\ pc[s] = "awaiting"
    /\ notices' = [notices EXCEPT ![s] =
           Append(@, Notice("error", agentCalls[s], ErrorText(m)))]
    /\ messages' = [messages EXCEPT ![s] =
           Append(@, Turn("assistant", PyStr(ErrorText(m))))]
    /\ outcomes' = [outcomes EXCEPT ![s] = Append(@, Outcome("agent_error", m))]
    /\ pc' = [pc EXCEPT ![s] = "idle"]
    /\ UNCHANGED <<apiKeySet, llmRejects, dbContents, response, view,
                   agentCalls, sqlResult, base>>

\* Variant: the except clause reports the error and calls agent.run again.
AgentRaiseRetries(s, m) ==
    /\ pc[s] = "awaiting"
    /\ agentCalls[s] <= MaxSubmissions
    /\ notices' = [notices EXCEPT ![s] =
           Append(@, Notice("error", agentCalls[s], ErrorText(m)))]
    /\ agentCalls' = [agentCalls EXCEPT ![s] = @ + 1]
    /\ UNCHANGED <<apiKeySet, llmRejects, dbContents, pc, messages, response,
                   view, sqlResult, base, outcomes>>

\* agent.run raises an exception with message m: lines 199-200.
AgentRaise(s, m) ==
    /\ pc[s] = "awaiting"
    /\ notices' = [notices EXCEPT ![s] =
           Append(@, Notice("error", agentCalls[s], ErrorText(m)))]
    /\ outcomes' = [outcomes EXCEPT ![s] = Append(@, Outcome("agent_error", m))]
    /\ pc' = [pc EXCEPT ![s] = "idle"]
    /\ UNCHANGED <<apiKeySet, llmRejects, dbContents, messages, response, view,
                   agentCalls, sqlResult, base>>

Next ==
    \E s \in Sessions :
        \/ Load(s)
        \/ \E q \in Queries : Submit(s, q)
        \/ \E stmt \in Statements : AgentQuery(s, stmt)
        \/ \E r \in SessionResponses : AgentReturn(s, r)
        \/ Render(s)
        \/ \E m \in AgentErrors : AgentRaise(s, m)

Spec == Init /\ [][Next]_vars

-----------------------------------------------------------------------------
(* The renderer on its own: one session whose agent has just returned r,   *)
(* for every r of AllResponses.                                            *)

RenderSession == CHOOSE s \in Sessions : TRUE

RenderInit ==
    /\ apiKeySet = TRUE
    /\ llmRejects = FALSE
    /\ dbContents = InitialDb
    /\ notices = [s \in Sessions |-> <<>>]
    /\ view = [s \in Sessions |-> NoView]
    /\ sqlResult = [s \in Sessions |-> NoResult]
    /\ outcomes = [s \in Sessions |-> <<>>]
    /\ agentCalls = [s \in Sessions |-> IF s = RenderSession THEN 1 ELSE 0]
    /\ pc = [s \in Sessions |-> IF s = RenderSession THEN "rendering" ELSE "new"]
    /\ base = [s \in Sessions |-> IF s = RenderSession THEN <<Greeting>> ELSE <<>>]
    /\ \E r \in AllResponses, q \in Queries :
          /\ response = [s \in Sessions |-> IF s = RenderSession THEN r ELSE PyNone]
          /\ messages = [s \in Sessions |->
                IF s = RenderSession
                THEN <<Greeting, Turn("user", PyStr(q)), Turn("assistant", r)>>
                ELSE <<>>]

RenderNext == \E s \in Sessions : Render(s)

RenderSpec == RenderInit /\ [][RenderNext]_vars

-----------------------------------------------------------------------------
(* Vocabulary of the properties *)

Contains(text, m) ==
    \E i \in 1..(Len(text) - Len(m) + 1) : SubSeq(text, i, i + Len(m) - 1) = m

IsPrefix(a, b) == Len(a) <= Len(b) /\ \A i \in 1..Len(a) : a[i] = b[i]

Last(q) == q[Len(q)]

\* Assistant turns other than the greeting.
AssistantTurns(s) ==
    {i \in 2..Len(messages[s]) : messages[s][i].role = "assistant"}

\* st.error calls of the except clause (line 200).
ErrorNotices(s) == {i \in 1..Len(notices[s]) : notices[s][i].kind = "error"}

WithResult(s, res) == {i \in 1..Len(outcomes[s]) : outcomes[s][i].result = res}

\* Every started query of s has run to the end of the script.
Settled(s) == agentCalls[s] > 0 /\ Len(outcomes[s]) = agentCalls[s]

\* The value agent.run returned for the query that was rendered last.
Returned(s) == Last(messages[s]).content

UniformTable(r) ==
    /\ r.tag = "list"
    /\ Len(r.v) > 0
    /\ \A i \in 1..Len(r.v) : r.v[i].tag = "tuple" /\ Len(r.v[i].v) = Len(r.v[1].v)

Malformed(r) == r.tag # "str" /\ ~UniformTable(r)

ColumnLabel ==
    <<"Column 1", "Column 2", "Column 3", "Column 4", "Column 5", "Column 6">>

Mutating == {"INSERT", "DROP"}

-----------------------------------------------------------------------------
(* C1 *)

\* C1: when every query of a session has been processed, exactly one of the
\* N queries (number i) ended with an agent error and all others succeeded,
\* the history holds N user turns and N-1 assistant turns besides the
\* greeting, exactly one error notice was shown and it belongs to query i,
\* and the controller is idle.
C1_OneFailureAmongN ==
    \A s \in Sessions :
        ( /\ Settled(s)
          /\ Cardinality(WithResult(s, "agent_error")) = 1
          /\ Cardinality(WithResult(s, "ok")) = agentCalls[s] - 1 )
        => /\ Cardinality(UserTurns(s)) = agentCalls[s]
           /\ Cardinality(AssistantTurns(s)) = agentCalls[s] - 1
           /\ Cardinality(ErrorNotices(s)) = 1
           /\ \A i \in ErrorNotices(s) : notices[s][i].sub \in WithResult(s, "agent_error")
           /\ pc[s] = "idle"

\* A session with three processed queries of which the second failed.
C1_Witness ==
    \E s \in Sessions :
        /\ Settled(s)
        /\ agentCalls[s] = 3
        /\ WithResult(s, "agent_error") = {2}
        /\ WithResult(s, "ok") = {1, 3}
        /\ pc[s] = "idle"

-----------------------------------------------------------------------------
(* C2 *)

\* C2: once a query whose agent call succeeded but whose rendering raised has
\* been processed, the history is the history before the query plus the user
\* turn only, an error notice is shown and the controller is idle.
C2_NoTurnAfterRenderFailure ==
    \A s \in Sessions :
        ( /\ Settled(s)
          /\ Last(outcomes[s]).result = "render_error" )
        => /\ Len(messages[s]) = Len(base[s]) + 1
           /\ Last(messages[s]).role = "user"
           /\ ErrorNotices(s) # {}
           /\ pc[s] = "idle"

-----------------------------------------------------------------------------
(* C3 *)

\* C3: for every malformed response (a list that is empty, holds a non-tuple
\* or holds tuples of different arities, or an object that is neither text
\* nor a list) rendering does not raise and shows the fallback notice: "not
\* tabular" for lists, "unexpected format" for other objects.
C3_MalformedGetsFallback ==
    \A s \in Sessions :
        ( /\ Settled(s)
          /\ Last(messages[s]).role = "assistant"
          /\ Malformed(Returned(s)) )
        => /\ Last(outcomes[s]).result = "ok"
           /\ view[s] = IF Returned(s).tag = "list"
                        THEN Write(PyStr(NotTabular))
                        ELSE Write(PyStr(UnexpectedFormat))

-----------------------------------------------------------------------------
(* C4 *)

\* C4: for every non-empty list of tuples of one arity k, rendering shows a
\* grid whose headers are "Column 1" .. "Column k" in this order and whose
\* rows are the tuples of the list, in the order of the list.
C4_UniformTableGrid ==
    \A s \in Sessions :
        ( /\ Settled(s)
          /\ Last(messages[s]).role = "assistant"
          /\ UniformTable(Returned(s)) )
        => LET r == Returned(s)
               k == Len(r.v[1].v)
           IN  /\ Last(outcomes[s]).result = "ok"
               /\ view[s].widget = "dataframe"
               /\ Len(view[s].headers) = k
               /\ \A j \in 1..k : view[s].headers[j] = ColumnLabel[j]
               /\ Len(view[s].rows) = Len(r.v)
               /\ \A i \in 1..Len(r.v) : view[s].rows[i] = r.v[i].v

\* A rendered table of two different rows of arity 2.
C4_Witness ==
    \E s \in Sessions :
        /\ Settled(s)
        /\ Last(messages[s]).role = "assistant"
        /\ UniformTable(Returned(s))
        /\ Len(Returned(s).v) = 2
        /\ Len(Returned(s).v[1].v) = 2
        /\ Returned(s).v[1] # Returned(s).v[2]
        /\ view[s].widget = "dataframe"

-----------------------------------------------------------------------------
(* C5 *)

\* C5: after a successful query the content of the assistant turn appended
\* to the history is what was rendered for it: the written text (the fallback
\* notice for malformed or unrecognized responses), or the rows of the grid.
C5_TurnHoldsRenderedContent ==
    \A s \in Sessions :
        ( /\ Settled(s)
          /\ Last(outcomes[s]).result = "ok" )
        => /\ Last(messages[s]).role = "assistant"
           /\ view[s].widget = "write" => Last(messages[s]).content = view[s].body
           /\ view[s].widget = "dataframe" =>
                  /\ Last(messages[s]).content.tag = "list"
                  /\ [i \in 1..Len(Last(messages[s]).content.v) |->
                         Last(messages[s]).content.v[i].v] = view[s].rows

-----------------------------------------------------------------------------
(* C6 *)

\* C6: the agent is invoked exactly once per submitted query, and when that
\* invocation raised an error with message m, the error notice of the query
\* contains m and the history is the history before the query plus the user
\* turn.
C6_AgentErrorReported ==
    \A s \in Sessions :
        /\ agentCalls[s] = Cardinality(UserTurns(s))
        /\ ( /\ Settled(s)
             /\ Last(outcomes[s]).result = "agent_error" )
           => /\ notices[s] # <<>>
              /\ Last(notices[s]).kind = "error"
              /\ Last(notices[s]).sub = agentCalls[s]
              /\ Contains(Last(notices[s]).text, Last(outcomes[s]).detail)
              /\ Len(messages[s]) = Len(base[s]) + 1
              /\ IsPrefix(base[s], messages[s])
              /\ Last(messages[s]).role = "user"
              /\ pc[s] = "idle"

\* A second query that failed with "backend timeout" after a first one that
\* got an answer.
C6_Witness ==
    \E s \in Sessions :
        /\ Settled(s)
        /\ agentCalls[s] = 2
        /\ Last(outcomes[s]) = Outcome("agent_error", "backend timeout")
        /\ Len(base[s]) = 3

-----------------------------------------------------------------------------
(* C7 *)

\* C7: the stored rows never change, and every mutating statement run
\* through the handle is rejected.
C7_ReadOnly ==
    /\ dbContents = InitialDb
    /\ \A s \in Sessions :
           sqlResult[s].stmt \in Mutating => sqlResult[s].outcome = "rejected"

\* Two sessions have each attempted a write, one of them a DROP.
C7_Witness ==
    \E s, t \in Sessions :
        /\ s # t
        /\ sqlResult[s].stmt = "DROP"
        /\ sqlResult[t].stmt \in Mutating

-----------------------------------------------------------------------------
(* C8 *)

\* C8: without the credential, a session that has started has shown the
\* startup error, has not crashed, and has invoked the agent for no query.
C8_MissingKeyBlocksAgent ==
    ~apiKeySet =>
        \A s \in Sessions :
            pc[s] # "new" =>
                /\ \E i \in 1..Len(notices[s]) : notices[s][i].kind = "startup"
                /\ pc[s] # "crashed"
                /\ agentCalls[s] = 0

-----------------------------------------------------------------------------
(* C9 *)

\* C9: at most one agent invocation of a session is unfinished, a query is
\* accepted only when none is, and while the response is being rendered the
\* history does not hold the assistant turn yet (agent call, then render,
\* then history update).
C9_CallRenderThenUpdate ==
    \A s \in Sessions :
        /\ agentCalls[s] - Len(outcomes[s]) \in {0, 1}
        /\ (agentCalls[s] - Len(outcomes[s]) = 1) <=> (pc[s] \in {"awaiting", "rendering"})
        /\ pc[s] = "rendering" => Len(messages[s]) = Len(base[s]) + 1

-----------------------------------------------------------------------------
(* C10 *)

HistoryShape(s) ==
    /\ messages[s] # <<>>
    /\ messages[s][1] = Greeting
    /\ \A i \in AssistantTurns(s) : messages[s][i - 1].role = "user"

====
